---- MODULE Spec2Model ----
(***************************************************************************)
(* A model of libkineto's Config (libkineto/src/Config.h): the typed       *)
(* profiler configuration object, its setters and accessors, the static    *)
(* alignUp helper, clone() and the private cloneDerived().                 *)
(*                                                                         *)
(* Config objects live in cfg (object id -> fields), feature sub-configs   *)
(* (owned AbstractConfig instances) live in heap (address -> object), and  *)
(* call records the last member function invoked with its arguments, its   *)
(* receiver, and what the call produced.                                   *)
(*                                                                         *)
(* Durations are integer tick counts as in std::chrono: milliseconds for   *)
(* the periods, seconds for the on-demand duration, clock ticks for time   *)
(* points.  The model uses unbounded integers inside its bounds; the       *)
(* 64-bit overflow of std::chrono representations is outside them.         *)
(***************************************************************************)
EXTENDS Integers, FiniteSets, Sequences, TLC

VARIABLES cfg, heap, call

vars == <<cfg, heap, call>>

-----------------------------------------------------------------------------
(* Bounds of the model *)

\* alignUp is called with durations in -MaxMs..MaxMs and alignments 0..MaxAlign
MaxMs == 8
MaxAlign == 5
\* periods handed to the period setters are 1..MaxPeriod milliseconds
MaxPeriod == 3
\* counts handed to setSamplesPerReport are 0..MaxCount
MaxCount == 4
\* at most MaxConfigs Config objects are alive
MaxConfigs == 2
\* on-demand durations are -1..MaxDuration seconds, and 30 seconds
MaxDuration == 8
\* on-demand timestamps are 0..MaxHalfSeconds half seconds after the epoch
MaxHalfSeconds == 9
\* device indices asked about are 0..MaxDev
MaxDev == 11

-----------------------------------------------------------------------------
(* C++ arithmetic *)

\* operator% on the integer representation: the quotient truncates towards
\* zero, so the remainder has the sign of the dividend.  Defined for y > 0.
CppRem(x, y) == IF x >= 0 THEN x % y ELSE -((-x) % y)

\* 2^n
RECURSIVE Pow2(_)
Pow2(n) == IF n = 0 THEN 1 ELSE 2 * Pow2(n - 1)

\* bitwise & of two non-negative integers
RECURSIVE BitAnd(_, _)
BitAnd(a, b) ==
    IF a = 0 \/ b = 0 THEN 0
    ELSE (IF a % 2 = 1 /\ b % 2 = 1 THEN 1 ELSE 0) + 2 * BitAnd(a \div 2, b \div 2)

\* bitwise | of a set of distinct single bits
RECURSIVE BitsOf(_)
BitsOf(devs) ==
    IF devs = {} THEN 0
    ELSE LET d == CHOOSE x \in devs : TRUE IN Pow2(d) + BitsOf(devs \ {d})

\* what a call produces: a returned value, or the process aborted.  ub marks
\* an outcome reached through undefined behaviour.
Returned(v) == [kind |-> "returned", value |-> v, ub |-> FALSE]
Aborted == [kind |-> "aborted", value |-> 0, ub |-> FALSE]
UndefinedReturn(v) == [kind |-> "returned", value |-> v, ub |-> TRUE]
UndefinedTrap == [kind |-> "aborted", value |-> 0, ub |-> TRUE]

NoCall == [op |-> "none"]

-----------------------------------------------------------------------------
(* Config::alignUp *)

Durations == (-MaxMs)..MaxMs
Alignments == 0..MaxAlign

\* rounds down to a multiple instead of advancing
alignUpFloor(duration, alignment) ==
    IF alignment = 0
    THEN {UndefinedTrap} \cup {UndefinedReturn(v) : v \in Durations}
    ELSE {Returned(duration - CppRem(duration, alignment))}

\* plain ceiling: an exact multiple is returned as it is
alignUpCeil(duration, alignment) ==
    IF alignment = 0
    THEN {UndefinedTrap} \cup {UndefinedReturn(v) : v \in Durations}
    ELSE LET d == duration + alignment - 1
         IN {Returned(d - CppRem(d, alignment))}

\* duration += alignment; return duration - (duration % alignment);
\* The set of outcomes of the call.  With alignment = 0 the % divides by zero
\* with no guard before it: undefined behaviour, a trap (SIGFPE) or any value.
alignUp(duration, alignment) ==
    IF alignment = 0
    THEN {UndefinedTrap} \cup {UndefinedReturn(v) : v \in Durations}
    ELSE LET d == duration + alignment
         IN {Returned(d - CppRem(d, alignment))}

-----------------------------------------------------------------------------
(* Config objects *)

ConfigIds == 1..MaxConfigs
NoConfig == [alive |-> FALSE]
Alive == {c \in ConfigIds : cfg[c].alive}

\* featureConfigs_ maps a feature name to the address of the owned feature
\* config, 0 where the map has no entry for the name
FeatureNames == {"featureX", "featureY"}
HeapIds == 1..(MaxConfigs * Cardinality(FeatureNames))
NoObject == [alive |-> FALSE]

Names == {"e1", "e2", "e3"}

\* time points count ticks of high_resolution_clock; a std::chrono::seconds
\* added to one is converted to ticks first
TicksPerSecond == 1000
SecondsToTicks(s) == s * TicksPerSecond
Timestamps == {h * (TicksPerSecond \div 2) : h \in 0..MaxHalfSeconds}

\* uint8_t eventProfilerDeviceMask_ = ~0;  (~0 is int -1, narrowed to 8 bits)
ToUint8(x) == x % 256
eventProfilerDeviceMaskDefault == ToUint8(-1)

\* std::vector<int> eventReportPercentiles_ = {5, 25, 50, 75, 95};
eventReportPercentilesDefault == <<5, 25, 50, 75, 95>>

\* A constructed Config: the in-class defaults of Config.h, and the fields the
\* constructor sets (sample period sp, report period rp a multiple of it, one
\* sample per report, on-demand timestamp ts, no names, no feature configs).
NewConfig(sp, rp, ts) ==
    [alive |-> TRUE,
     samplePeriod_ |-> sp,
     multiplexPeriod_ |-> sp,
     reportPeriod_ |-> rp,
     samplesPerReport_ |-> 1,
     eventNames_ |-> {},
     metricNames_ |-> {},
     eventProfilerOnDemandDuration_ |-> 0,
     eventProfilerOnDemandTimestamp_ |-> ts,
     eventReportPercentiles_ |-> eventReportPercentilesDefault,
     eventProfilerDeviceMask_ |-> eventProfilerDeviceMaskDefault,
     featureConfigs_ |-> [n \in FeatureNames |-> 0]]

InitOne(sp, rp, ts) ==
    /\ cfg = [c \in ConfigIds |-> IF c = 1 THEN NewConfig(sp, rp, ts) ELSE NoConfig]
    /\ heap = [h \in HeapIds |-> NoObject]
    /\ call = NoCall

Init == InitOne(1, 1, 0)

-----------------------------------------------------------------------------
(* Calls of the static alignUp *)

AlignUpCall(d, a) ==
    /\ \E r \in alignUp(d, a) :
          call' = [op |-> "alignUp", duration |-> d, alignment |-> a, ret |-> r]
    /\ UNCHANGED <<cfg, heap>>

NextAlign == \E d \in Durations, a \in Alignments : AlignUpCall(d, a)

SpecAlign == Init /\ [][NextAlign]_vars

\* C1: for every duration d and alignment a > 0, alignUp(d, a) returns a
\* multiple of a that is at least d and greater than d - a.
C1_AlignUpContract ==
    (call.op = "alignUp" /\ call.alignment > 0) =>
        /\ call.ret.kind = "returned"
        /\ CppRem(call.ret.value, call.alignment) = 0
        /\ call.ret.value >= call.duration
        /\ call.ret.value > call.duration - call.alignment

\* a negative duration that is no multiple of an alignment > 1 was aligned
C1_Witness ==
    /\ call.op = "alignUp"
    /\ call.alignment > 1
    /\ call.duration < 0
    /\ CppRem(call.duration, call.alignment) # 0
    /\ call.ret.kind = "returned"

\* C2: alignUp(d, 0) ends in an abort, never returns a duration, and never
\* takes a modulo by zero without a guard.
C2_ZeroAlignmentAborts ==
    (call.op = "alignUp" /\ call.alignment = 0) =>
        (call.ret.kind = "aborted" /\ ~call.ret.ub)

\* C9: for d >= 0 and a > 0 alignUp(d, a) is the smallest multiple of a
\* strictly greater than d; an exact multiple k*a advances to (k+1)*a.
C9_AlignUpAdvances ==
    (call.op = "alignUp" /\ call.alignment > 0 /\ call.duration >= 0) =>
        /\ call.ret.kind = "returned"
        /\ call.ret.value % call.alignment = 0
        /\ call.ret.value > call.duration
        /\ call.ret.value - call.alignment <= call.duration
        /\ (call.duration % call.alignment = 0 =>
               call.ret.value = call.duration + call.alignment)

\* a positive exact multiple k*a, k >= 1, a > 1, came back as (k+1)*a
C9_Witness ==
    /\ call.op = "alignUp"
    /\ call.alignment > 1
    /\ call.duration >= call.alignment
    /\ call.duration % call.alignment = 0
    /\ call.ret = Returned(call.duration + call.alignment)

-----------------------------------------------------------------------------
(* The event sampling periods and samplesPerReport *)

Periods == 1..MaxPeriod
Counts == 0..MaxCount

\* the record of a member function call on Config c with argument arg
MemberCall(name, c, arg) ==
    [op |-> name, self |-> c, arg |-> arg]

\* void setSamplePeriod(milliseconds period) { samplePeriod_ = period; }
setSamplePeriod(c, period) ==
    /\ c \in Alive
    /\ cfg' = [cfg EXCEPT ![c].samplePeriod_ = period]
    /\ call' = MemberCall("setSamplePeriod", c, period)
    /\ UNCHANGED heap

\* void setMultiplexPeriod(milliseconds period) { multiplexPeriod_ = period; }
setMultiplexPeriod(c, period) ==
    /\ c \in Alive
    /\ cfg' = [cfg EXCEPT ![c].multiplexPeriod_ = period]
    /\ call' = MemberCall("setMultiplexPeriod", c, period)
    /\ UNCHANGED heap

\* void setSamplesPerReport(int count) { samplesPerReport_ = count; }
setSamplesPerReport(c, count) ==
    /\ c \in Alive
    /\ cfg' = [cfg EXCEPT ![c].samplesPerReport_ = count]
    /\ call' = MemberCall("setSamplesPerReport", c, count)
    /\ UNCHANGED heap

\* The period the report period is aligned to: the multiplex period when
\* counters are multiplexed at a coarser period than they are sampled, the
\* sample period otherwise.
ReportAlignment(f) ==
    IF f.multiplexPeriod_ > f.samplePeriod_
         /\ f.multiplexPeriod_ % f.samplePeriod_ = 0
    THEN f.multiplexPeriod_
    ELSE f.samplePeriod_

\* msecs aligned upward to the nearest multiple of alignment (> 0)
AlignedUpward(msecs, alignment) ==
    IF msecs # 0 /\ CppRem(msecs, alignment) = 0
    THEN msecs
    ELSE (CHOOSE r \in alignUp(msecs, alignment) : TRUE).value

\* count brought into [1, reportPeriod / samplePeriod]
Revalidated(count, reportPeriod, samplePeriod) ==
    LET hi == reportPeriod \div samplePeriod
    IN IF count < 1 THEN 1 ELSE IF count > hi THEN hi ELSE count

\* void setReportPeriod(milliseconds msecs);  (defined outside Config.h)
\* Stores msecs aligned up to a multiple of the current sample period (or
\* multiplex period) and re-validates samplesPerReport against the new ratio.
setReportPeriod(c, msecs) ==
    /\ c \in Alive
    /\ LET rp == AlignedUpward(msecs, ReportAlignment(cfg[c]))
       IN cfg' = [cfg EXCEPT
                    ![c].reportPeriod_ = rp,
                    ![c].samplesPerReport_ =
                        Revalidated(@, rp, cfg[c].samplePeriod_)]
    /\ call' = MemberCall("setReportPeriod", c, msecs)
    /\ UNCHANGED heap

\* int samplesPerReport() const / reportPeriod() / samplePeriod() / multiplexPeriod()
samplesPerReport(c) == cfg[c].samplesPerReport_
reportPeriod(c) == cfg[c].reportPeriod_
samplePeriod(c) == cfg[c].samplePeriod_
multiplexPeriod(c) == cfg[c].multiplexPeriod_

InitPeriods ==
    \E sp \in Periods, k \in 1..MaxPeriod : InitOne(sp, sp * k, 0)

NextPeriods ==
    \E c \in ConfigIds :
        \/ \E p \in Periods : setSamplePeriod(c, p)
        \/ \E p \in Periods : setMultiplexPeriod(c, p)
        \/ \E p \in Periods : setReportPeriod(c, p)
        \/ \E n \in Counts : setSamplesPerReport(c, n)

SpecPeriods == InitPeriods /\ [][NextPeriods]_vars

\* C3: after any sequence of setSamplePeriod, setReportPeriod and
\* setSamplesPerReport calls, samplesPerReport() lies in
\* [1, reportPeriod() / samplePeriod()].
C3_SamplesPerReportInRange ==
    \A c \in Alive :
        /\ 1 <= samplesPerReport(c)
        /\ samplesPerReport(c) <= reportPeriod(c) \div samplePeriod(c)

\* C4: in every state reachable through the period setters, reportPeriod()
\* is a multiple of samplePeriod(), or of multiplexPeriod().
C4_ReportPeriodAligned ==
    \A c \in Alive :
        \/ reportPeriod(c) % samplePeriod(c) = 0
        \/ reportPeriod(c) % multiplexPeriod(c) = 0

-----------------------------------------------------------------------------
(* Event and metric names *)

\* std::set::insert(first, last): every name of the range is added, the
\* names already in the set stay
SetInsertRange(set, names) == set \cup names

\* the names replace the set instead of being added to it
addEventsReplacing(c, names) ==
    /\ c \in Alive
    /\ cfg' = [cfg EXCEPT ![c].eventNames_ = names]
    /\ call' = MemberCall("addEvents", c, names)
    /\ UNCHANGED heap

\* void addEvents(const std::set<std::string>& names)
addEvents(c, names) ==
    /\ c \in Alive
    /\ cfg' = [cfg EXCEPT ![c].eventNames_ = SetInsertRange(@, names)]
    /\ call' = MemberCall("addEvents", c, names)
    /\ UNCHANGED heap

\* void addMetrics(const std::set<std::string>& names)
addMetrics(c, names) ==
    /\ c \in Alive
    /\ cfg' = [cfg EXCEPT ![c].metricNames_ = SetInsertRange(@, names)]
    /\ call' = MemberCall("addMetrics", c, names)
    /\ UNCHANGED heap

eventNames(c) == cfg[c].eventNames_
metricNames(c) == cfg[c].metricNames_

NextNames ==
    \E c \in ConfigIds, S \in SUBSET Names :
        \/ addEvents(c, S)
        \/ addMetrics(c, S)

SpecNames == Init /\ [][NextNames]_vars

\* C7: addEvents(S) leaves eventNames() equal to the old eventNames() united
\* with S, removes no name, and applying it again changes nothing; the same
\* holds for addMetrics and metricNames().
C7_AddNamesIsIdempotentUnion ==
    [][LET c == call'.self
           S == call'.arg
       IN /\ call'.op = "addEvents" =>
               /\ cfg'[c].eventNames_ = eventNames(c) \cup S
               /\ SetInsertRange(cfg'[c].eventNames_, S) = cfg'[c].eventNames_
               /\ cfg'[c].metricNames_ = metricNames(c)
          /\ call'.op = "addMetrics" =>
               /\ cfg'[c].metricNames_ = metricNames(c) \cup S
               /\ SetInsertRange(cfg'[c].metricNames_, S) = cfg'[c].metricNames_
               /\ cfg'[c].eventNames_ = eventNames(c)]_vars

\* addEvents added a name to a set that already held another one, which stayed
C7_Witness ==
    /\ call.op = "addEvents"
    /\ call.arg # {}
    /\ eventNames(call.self) \ call.arg # {}
    /\ call.arg \subseteq eventNames(call.self)

-----------------------------------------------------------------------------
(* The event profiler on-demand window *)

OnDemandDurations == ((-1)..MaxDuration) \cup {30}

\* void setEventProfilerOnDemandDuration(seconds duration)
setEventProfilerOnDemandDuration(c, duration) ==
    /\ c \in Alive
    /\ cfg' = [cfg EXCEPT ![c].eventProfilerOnDemandDuration_ = duration]
    /\ call' = MemberCall("setEventProfilerOnDemandDuration", c, duration)
    /\ UNCHANGED heap

\* seconds eventProfilerOnDemandDuration() const
eventProfilerOnDemandDuration(c) == cfg[c].eventProfilerOnDemandDuration_

\* time_point eventProfilerOnDemandStartTime() const
eventProfilerOnDemandStartTime(c) == cfg[c].eventProfilerOnDemandTimestamp_

\* the end time without the duration added
eventProfilerOnDemandEndTimeNoDuration(c) ==
    cfg[c].eventProfilerOnDemandTimestamp_

\* return eventProfilerOnDemandTimestamp_ + eventProfilerOnDemandDuration_;
eventProfilerOnDemandEndTime(c) ==
    cfg[c].eventProfilerOnDemandTimestamp_
        + SecondsToTicks(cfg[c].eventProfilerOnDemandDuration_)

\* The request of Config c is active at time t: t lies in [start, end).
\* Evaluated by the callers of the two accessors against the current clock.
eventProfilerOnDemandActive(c, t) ==
    /\ eventProfilerOnDemandStartTime(c) <= t
    /\ t < eventProfilerOnDemandEndTime(c)

InitOnDemand == \E ts \in Timestamps : InitOne(1, 1, ts)

NextOnDemand ==
    \E c \in ConfigIds, d \in OnDemandDurations :
        setEventProfilerOnDemandDuration(c, d)

SpecOnDemand == InitOnDemand /\ [][NextOnDemand]_vars

\* times probed around a window: every half second up to two seconds past
\* the longest window
ProbeTimes ==
    {h * (TicksPerSecond \div 2) : h \in 0..(MaxHalfSeconds + 2 * 30 + 4)}

\* C6: for a request with start T and duration D (also after
\* setEventProfilerOnDemandDuration(D)), eventProfilerOnDemandEndTime() is
\* eventProfilerOnDemandStartTime() + eventProfilerOnDemandDuration() = T + D,
\* so the request is active exactly at the times t with T <= t < T + D: for
\* D >= 1 s it is active one second before T + D and inactive one second after.
C6_OnDemandWindow ==
    \A c \in Alive :
        LET T == cfg[c].eventProfilerOnDemandTimestamp_
            D == IF call.op = "setEventProfilerOnDemandDuration" /\ call.self = c
                 THEN call.arg
                 ELSE eventProfilerOnDemandDuration(c)
        IN /\ eventProfilerOnDemandDuration(c) = D
           /\ eventProfilerOnDemandStartTime(c) = T
           /\ eventProfilerOnDemandEndTime(c) = T + D * TicksPerSecond
           /\ \A t \in ProbeTimes :
                 eventProfilerOnDemandActive(c, t)
                     <=> (T <= t /\ t < T + D * TicksPerSecond)
           /\ D >= 1 =>
                 /\ eventProfilerOnDemandActive(c, T + (D - 1) * TicksPerSecond)
                 /\ ~eventProfilerOnDemandActive(c, T + (D + 1) * TicksPerSecond)

\* a request stamped after the epoch was given 30 s: active at T + 29 s,
\* inactive at T + 31 s
C6_Witness ==
    /\ call.op = "setEventProfilerOnDemandDuration"
    /\ call.arg = 30
    /\ eventProfilerOnDemandStartTime(call.self) > 0
    /\ eventProfilerOnDemandActive(call.self,
           eventProfilerOnDemandStartTime(call.self) + 29 * TicksPerSecond)
    /\ ~eventProfilerOnDemandActive(call.self,
           eventProfilerOnDemandStartTime(call.self) + 31 * TicksPerSecond)

-----------------------------------------------------------------------------
(* The device mask *)

Devices == 0..MaxDev
\* the width of int, the type of (1 << dev)
IntBits == 32
\* the bits of uint8_t eventProfilerDeviceMask_
MaskBits == 8

\* 1 << dev in int: defined for dev < IntBits - 1
ShiftLeftOne(dev) == Pow2(dev)

\* tests the bit above the one asked for
eventProfilerEnabledForDeviceOffByOne(c, dev) ==
    IF dev >= IntBits THEN {TRUE, FALSE}
    ELSE {0 # BitAnd(cfg[c].eventProfilerDeviceMask_, ShiftLeftOne(dev + 1))}

\* return 0 != (eventProfilerDeviceMask_ & (1 << dev));
\* The set of results of the call: shifting by the width of int or more is
\* undefined behaviour, and either answer may come back.
eventProfilerEnabledForDevice(c, dev) ==
    IF dev >= IntBits THEN {TRUE, FALSE}
    ELSE {0 # BitAnd(cfg[c].eventProfilerDeviceMask_, ShiftLeftOne(dev))}

EventProfilerEnabledForDeviceCall(c, dev) ==
    /\ c \in Alive
    /\ \E r \in eventProfilerEnabledForDevice(c, dev) :
          call' = [op |-> "eventProfilerEnabledForDevice", self |-> c,
                   arg |-> dev, ret |-> r]
    /\ UNCHANGED <<cfg, heap>>

\* uint8_t createDeviceMask(const std::string& val), applied by handleOption
\* (both defined outside Config.h): the mask with exactly the bits of the
\* listed device indices, each below the supported device count, set.
createDeviceMask(devs) == BitsOf(devs)

HandleDeviceMaskOption(c, devs) ==
    /\ c \in Alive
    /\ cfg' = [cfg EXCEPT ![c].eventProfilerDeviceMask_ = createDeviceMask(devs)]
    /\ call' = MemberCall("handleOption", c, devs)
    /\ UNCHANGED heap

NextDevice ==
    \E c \in ConfigIds :
        \/ \E dev \in Devices : EventProfilerEnabledForDeviceCall(c, dev)
        \/ \E devs \in SUBSET (0..(MaskBits - 1)) : HandleDeviceMaskOption(c, devs)

SpecDevice == Init /\ [][NextDevice]_vars

\* bit dev of the mask m
BitSet(m, dev) == (m \div Pow2(dev)) % 2 = 1

\* C8: eventProfilerEnabledForDevice(dev) is true iff bit dev of the 8-bit
\* device mask is set; with the default mask every device 0..7 is enabled.
C8_DeviceEnabledIffBitSet ==
    call.op = "eventProfilerEnabledForDevice" =>
        /\ call.ret <=> BitSet(cfg[call.self].eventProfilerDeviceMask_, call.arg)
        /\ (/\ cfg[call.self].eventProfilerDeviceMask_ = eventProfilerDeviceMaskDefault
            /\ call.arg \in 0..(MaskBits - 1)) => call.ret

\* with a mask that has some but not all bits set, a device whose bit is
\* clear was reported disabled although the bit above it is set
C8_Witness ==
    /\ call.op = "eventProfilerEnabledForDevice"
    /\ call.arg < MaskBits - 1
    /\ ~BitSet(cfg[call.self].eventProfilerDeviceMask_, call.arg)
    /\ BitSet(cfg[call.self].eventProfilerDeviceMask_, call.arg + 1)
    /\ call.ret = FALSE

-----------------------------------------------------------------------------
(* Feature sub-configs, clone() and cloneDerived() *)

\* a feature config holds one option of its own, a flag
FeatureValues == BOOLEAN

AliveIn(cf) == {c \in ConfigIds : cf[c].alive}
FreeConfigIds == ConfigIds \ Alive
FreeIn(hp) == {h \in HeapIds : ~hp[h].alive}
\* operator new for the feature config `name` of Config c.  Any free address
\* would do; the model hands out the one set aside for (c, name), so that
\* the order of allocations does not show in the addresses.
FeatureIndex(name) == IF name = "featureX" THEN 1 ELSE 2
Alloc(hp, c, name) ==
    CHOOSE h \in FreeIn(hp) :
        h = (c - 1) * Cardinality(FeatureNames) + FeatureIndex(name)

\* the addresses of the feature configs a Config's map points to
Owned(cf, c) == {cf[c].featureConfigs_[n] : n \in FeatureNames} \ {0}

\* An option of feature `name` reaches a Config with no such feature config
\* yet: the feature's factory makes one, and the Config owns it.
AddFeature(c, name) ==
    /\ c \in Alive
    /\ cfg[c].featureConfigs_[name] = 0
    /\ LET a == Alloc(heap, c, name)
       IN /\ heap' = [heap EXCEPT ![a] = [alive |-> TRUE, value |-> FALSE]]
          /\ cfg' = [cfg EXCEPT ![c].featureConfigs_[name] = a]
    /\ call' = MemberCall("addFeature", c, name)

\* An option of feature `name` is handled by the feature config the Config
\* owns: the feature config changes, the Config's own fields do not.
MutateFeature(c, name, v) ==
    /\ c \in Alive
    /\ cfg[c].featureConfigs_[name] # 0
    /\ heap' = [heap EXCEPT ![cfg[c].featureConfigs_[name]].value = v]
    /\ call' = MemberCall("mutateFeature", c, <<name, v>>)
    /\ UNCHANGED cfg

\* explicit Config(const Config& other) = default;
\* Memberwise copy: the sets and vectors are copied by value, and the base
\* class's map of feature config pointers entry by entry.
CopyConstruct(other) == other

\* cloneFeaturesInto(target) of the base class (defined outside Config.h):
\* every feature config of src is cloned through its own virtual clone, and
\* the clone is put into the map of the target d under the same name.
\* Yields the target's map and the heap after the allocations.
RECURSIVE cloneFeaturesInto(_, _, _, _, _)
cloneFeaturesInto(names, srcMap, d, dstMap, hp) ==
    IF names = {} THEN [featureConfigs_ |-> dstMap, heap |-> hp]
    ELSE LET n == CHOOSE x \in names : TRUE
             rest == names \ {n}
         IN IF srcMap[n] = 0
            THEN cloneFeaturesInto(rest, srcMap, d, dstMap, hp)
            ELSE LET a == Alloc(hp, d, n)
                 IN cloneFeaturesInto(rest, srcMap, d,
                                      [dstMap EXCEPT ![n] = a],
                                      [hp EXCEPT ![a] = hp[srcMap[n]]])

\* clone() without the call of cloneFeaturesInto
cloneWithoutFeatures(c) ==
    /\ c \in Alive
    /\ FreeConfigIds # {}
    /\ LET d == CHOOSE x \in FreeConfigIds : \A y \in FreeConfigIds : x <= y
       IN /\ cfg' = [cfg EXCEPT ![d] = CopyConstruct(cfg[c])]
          /\ UNCHANGED heap
          /\ call' = [op |-> "clone", self |-> c, arg |-> 0, ret |-> d]

\* std::unique_ptr<Config> clone() {
\*   auto cfg = std::unique_ptr<Config>(new Config(*this));
\*   cloneFeaturesInto(*cfg);
\*   return cfg; }
clone(c) ==
    /\ c \in Alive
    /\ FreeConfigIds # {}
    /\ LET d == CHOOSE x \in FreeConfigIds : \A y \in FreeConfigIds : x <= y
           copy == CopyConstruct(cfg[c])
           r == cloneFeaturesInto(FeatureNames, cfg[c].featureConfigs_,
                                  d, copy.featureConfigs_, heap)
       IN /\ cfg' = [cfg EXCEPT
                       ![d] = [copy EXCEPT !.featureConfigs_ = r.featureConfigs_]]
          /\ heap' = r.heap
          /\ call' = [op |-> "clone", self |-> c, arg |-> 0, ret |-> d]

\* AbstractConfig* cloneDerived() const override {
\*   assert(false);
\*   return nullptr; }
\* The set of outcomes: the assertion aborts the process; compiled with
\* NDEBUG the assertion is empty and the null pointer (0) is returned.
cloneDerived(c) == {Aborted, Returned(0)}

CloneDerivedCall(c) ==
    /\ c \in Alive
    /\ \E r \in cloneDerived(c) :
          call' = [op |-> "cloneDerived", self |-> c, arg |-> 0, ret |-> r]
    /\ UNCHANGED <<cfg, heap>>

\* The specification of clone(): Configs are cloned, and they and their
\* feature configs are changed.  The other specifications each exercise one
\* group of member functions on a single Config.
Next ==
    \E c \in ConfigIds :
        \/ clone(c)
        \/ CloneDerivedCall(c)
        \/ \E n \in FeatureNames : AddFeature(c, n)
        \/ \E n \in FeatureNames, v \in FeatureValues : MutateFeature(c, n, v)
        \/ addEvents(c, {"e1"})

Spec == Init /\ [][Next]_vars

\* what a Config is to its user: its fields, with each feature config's
\* state in place of the pointer to it
View(cf, hp, c) ==
    [cf[c] EXCEPT !.featureConfigs_ =
        [n \in FeatureNames |-> IF cf[c].featureConfigs_[n] = 0
                                THEN NoObject
                                ELSE hp[cf[c].featureConfigs_[n]]]]

\* C5: right after clone() the copy has the field values and the feature
\* sub-configs of the source; the two share no feature config; and a later
\* change of one Config (its fields, its feature sub-configs) leaves every
\* other Config as it was.
C5_CloneIsIndependentDeepCopy ==
    [][/\ call'.op = "clone" =>
            /\ View(cfg', heap', call'.ret) = View(cfg, heap, call'.self)
            /\ \A n \in FeatureNames :
                  cfg[call'.self].featureConfigs_[n] # 0
                      => /\ cfg'[call'.ret].featureConfigs_[n] # 0
                         /\ heap'[cfg'[call'.ret].featureConfigs_[n]].alive
       /\ \A c \in Alive :
            (call'.op \in {"clone", "cloneDerived"} \/ call'.self # c)
                => /\ c \in AliveIn(cfg')
                   /\ View(cfg', heap', c) = View(cfg, heap, c)
       /\ \A c, d \in AliveIn(cfg') :
            c # d => Owned(cfg', c) \cap Owned(cfg', d) = {}]_vars

\* two Configs are alive, one the clone of the other, both hold featureX,
\* and the last call changed the feature config of one to a value the
\* other's does not have
C5_Witness ==
    /\ call.op = "mutateFeature"
    /\ call.arg[1] = "featureX"
    /\ \E d \in Alive \ {call.self} :
          /\ cfg[d].featureConfigs_["featureX"] # 0
          /\ heap[cfg[d].featureConfigs_["featureX"]].value # call.arg[2]
          /\ cfg[d].eventNames_ = cfg[call.self].eventNames_
          /\ cfg[d].eventNames_ # {}

\* C10: Config::cloneDerived() always aborts: it never returns to its
\* caller, neither with a copy nor with a null pointer.
C10_CloneDerivedAborts ==
    call.op = "cloneDerived" => call.ret.kind = "aborted"

====
